---- MODULE Spec2Model ----
\* Model of services/spectrogram_manager.py: the SpectrogramManager, its two
\* generate entry points and load_audio, run by client threads against the
\* process-wide pyplot figure registry and the file system.
EXTENDS Integers, Sequences, FiniteSets, TLC

VARIABLES
    ctor,    \* the default_params argument the manager was constructed with
    mgr,     \* the SpectrogramManager instance: [params]
    figs,    \* pyplot's registry of open figures, in order; the last is current
    dirs,    \* file system: the set of existing directories (paths)
    files,   \* file system: existing regular files, path -> content
    pc,      \* per thread: position inside the running call
    fr,      \* per thread: arguments and locals of the running / last call
    calls,   \* per thread: number of calls started
    xc       \* the XenoCantoService client: the running / last call

vars == <<ctor, mgr, figs, dirs, files, pc, fr, calls, xc>>

-----------------------------------------------------------------------------
\* Bounds of the model

\* calls one client makes in the sequential specification
MaxCalls == 1
\* calls each thread makes in the two-thread specification
ParCalls == 1
\* calls made one after the other on one manager
RepSlots == 3
\* calls made on a manager whose caller goes on writing to its dictionaries
MutCalls == 2
\* the largest numPages the server reports
MaxNumPages == 3
\* the most recordings the server puts on one page
MaxRecs == 2

-----------------------------------------------------------------------------
\* Python values

\* A dict is a function from its keys; figsize values carry their Python type.
Keys == {"n_fft", "hop_length", "n_mels", "fmin", "fmax", "sr", "dpi", "figsize"}
ScalarKeys == Keys \ {"figsize"}

EmptyDict == [k \in {} |-> 0]

PyTuple(a, b) == [kind |-> "tuple", w |-> a, h |-> b]
PyList(a, b) == [kind |-> "list", w |-> a, h |-> b]

Has(d, k) == k \in DOMAIN d

\* dict.get(k, default)
GetOr(d, k, default) == IF Has(d, k) THEN d[k] ELSE default

\* a.copy(); a.update(b)
Update(a, b) ==
    [k \in (DOMAIN a) \cup (DOMAIN b) |-> IF k \in DOMAIN b THEN b[k] ELSE a[k]]

\* params[k] = v
SetItem(d, k, v) ==
    [j \in (DOMAIN d) \cup {k} |-> IF j = k THEN v ELSE d[j]]

Min(a, b) == IF a <= b THEN a ELSE b

\* ceil(a / b) for a >= 0, b > 0
CeilDiv(a, b) == (a + b - 1) \div b

RECURSIVE Gcd(_, _)
Gcd(a, b) == IF b = 0 THEN a ELSE Gcd(b, a % b)

\* ceil(n * num / den), the ratio reduced first to stay within the integers
CeilScale(n, num, den) ==
    LET g == Gcd(num, den) IN CeilDiv(n * (num \div g), den \div g)

-----------------------------------------------------------------------------
\* SpectrogramManager: class attribute and constructor

DEFAULT_PARAMS ==
    [n_fft |-> 2048, hop_length |-> 512, n_mels |-> 128, fmin |-> 0,
     fmax |-> 8000, sr |-> 22050, dpi |-> 100, figsize |-> PyTuple(10, 4)]

\* the sample rate load_audio falls back to when params has no 'sr'
FallbackSr == 22050

\* An argument that may be None: [given |-> FALSE] is None.
None == [given |-> FALSE, dict |-> EmptyDict]
Some(d) == [given |-> TRUE, dict |-> d]

\* x or y on an Optional[Dict]: None and the empty dict are falsy
Truthy(arg) == arg.given /\ DOMAIN arg.dict # {}

\* __init__: self.params = default_params or self.DEFAULT_PARAMS.copy()
Construct(arg) == [params |-> IF Truthy(arg) THEN arg.dict ELSE DEFAULT_PARAMS]

\* get_default_params
get_default_params == mgr.params

-----------------------------------------------------------------------------
\* Audio decoding (librosa.load as load_audio calls it)

NoAudio == [readable |-> FALSE, sr |-> 0, frames |-> 0]
NoDuration == [given |-> FALSE, ms |-> 0]

\* target_sr = sr or self.params.get('sr', 22050); a None / 0 argument is falsy
TargetSr(params, srArg) ==
    IF srArg # 0 THEN srArg ELSE GetOr(params, "sr", FallbackSr)

\* Frames read from the file: all of it, or int(duration * sr_native) of them.
\* Durations are held in milliseconds.
FramesRead(file, dur) ==
    IF dur.given THEN Min(file.frames, (dur.ms * file.sr) \div 1000)
    ELSE file.frames

\* Every outcome of load_audio: [ok, y (number of samples), sr].
\* An unreadable file raises; a file at another rate is resampled to
\* ceil(n * target / native) samples; resampling zero samples either yields
\* zero samples or is refused, depending on the resampler in use.
load_audio(params, file, srArg, dur) ==
    LET target == TargetSr(params, srArg)
        n == FramesRead(file, dur)
        raised == [ok |-> FALSE, y |-> 0, sr |-> 0]
    IN  IF ~file.readable THEN {raised}
        ELSE IF target = file.sr THEN {[ok |-> TRUE, y |-> n, sr |-> target]}
        ELSE IF n = 0 THEN {[ok |-> TRUE, y |-> 0, sr |-> target], raised}
        ELSE {[ok |-> TRUE, y |-> CeilScale(n, target, file.sr), sr |-> target]}

-----------------------------------------------------------------------------
\* Mel spectrogram (librosa.feature.melspectrogram + power_to_db)

NoShape == <<0, 0>>

ComputeKeys == {"n_fft", "hop_length", "n_mels", "fmin", "fmax"}

\* NumFrames as an uncentred transform would count: only whole windows
NumFrames_NoCentre(len, n_fft, hop_length) == 1 + ((len - n_fft) \div hop_length)

\* Number of STFT frames of a clip of len samples: the transform is centred,
\* the clip is padded by n_fft // 2 on both sides, so a clip shorter than the
\* window is padded, not refused.
NumFrames(len, n_fft, hop_length) == 1 + (len \div hop_length)

\* MelSpectrogram refusing a clip shorter than the window
MelSpectrogram_RejectShort(len, sr, params) ==
    LET fail(e) == [err |-> e, shape |-> NoShape]
        good == [err |-> "",
                 shape |-> <<params.n_mels, 1 + (len \div params.hop_length)>>]
    IN  IF sr = 0 THEN {fail("ZeroDivisionError")}
        ELSE IF ~(ComputeKeys \subseteq DOMAIN params) THEN {fail("KeyError")}
        ELSE IF params.n_fft <= 0 \/ params.hop_length <= 0
             THEN {fail("ParameterError")}
        ELSE IF params.n_mels <= 0 THEN {fail("ValueError")}
        ELSE IF len < params.n_fft THEN {fail("ParameterError")}
        ELSE {good}

\* Every outcome of the spectrogram computation of lines 129-140 (223-237):
\* [err, shape]. err = "" is success with shape = <<n_mels, frames>>.
\* A missing key raises KeyError, a zero sample rate ZeroDivisionError (array
\* entry: duration = len(y) / sr), a non-positive n_fft or hop_length
\* ParameterError, no mel band ValueError (np.max of an empty matrix); an empty
\* clip is padded to one frame or refused depending on the padding mode.
MelSpectrogram(len, sr, params) ==
    LET fail(e) == [err |-> e, shape |-> NoShape]
        good == [err |-> "",
                 shape |-> <<params.n_mels,
                             NumFrames(len, params.n_fft, params.hop_length)>>]
    IN  IF sr = 0 THEN {fail("ZeroDivisionError")}
        ELSE IF ~(ComputeKeys \subseteq DOMAIN params) THEN {fail("KeyError")}
        ELSE IF params.n_fft <= 0 \/ params.hop_length <= 0
             THEN {fail("ParameterError")}
        ELSE IF params.n_mels <= 0 THEN {fail("ValueError")}
        ELSE IF len = 0 THEN {good, fail("ValueError")}
        ELSE {good}

-----------------------------------------------------------------------------
\* pyplot: the process-wide registry of open figures

NoInv == <<0, 0>>

\* plt.subplots(figsize, dpi): a new figure, registered and made current
NewFigure(id, figsize, dpi) ==
    [id |-> id, figsize |-> figsize, dpi |-> dpi, data |-> NoInv,
     laidOut |-> FALSE]

\* GcfIndex taking the oldest open figure as the current one
GcfIndex_First(fs) == 1

\* plt.gcf(): the current figure is the last one registered. Between its
\* plt.subplots and its plt.close a call's own figure is open, so the registry
\* is never empty where the code asks for the current figure.
GcfIndex(fs) == Len(fs)

\* index of the figure with this id in the registry, 0 when it is closed
IndexOf(fs, id) ==
    IF \E i \in 1..Len(fs) : fs[i].id = id
    THEN CHOOSE i \in 1..Len(fs) : fs[i].id = id
    ELSE 0

\* plt.close(fig): unregister that figure
CloseFigure(fs, id) ==
    LET i == IndexOf(fs, id)
    IN  IF i = 0 THEN fs
        ELSE SubSeq(fs, 1, i - 1) \o SubSeq(fs, i + 1, Len(fs))

\* librosa.display.specshow(..., ax=ax): draws on the axes of the call's own
\* figure, wherever it is in the registry
DrawOn(fs, id, inv) ==
    [i \in 1..Len(fs) |-> IF fs[i].id = id THEN [fs[i] EXCEPT !.data = inv]
                          ELSE fs[i]]

\* plt.tight_layout(pad=0): lays out the current figure
TightLayout(fs) ==
    [fs EXCEPT ![GcfIndex(fs)] = [@ EXCEPT !.laidOut = TRUE]]

OpenIds(fs) == {fs[i].id : i \in 1..Len(fs)}

-----------------------------------------------------------------------------
\* File system

Root == <<>>
Parent(p) == SubSeq(p, 1, Len(p) - 1)
Prefixes(p) == {SubSeq(p, 1, i) : i \in 0..Len(p)}

NoFiles == [p \in {} |-> 0]

\* a file that was there before any call
OldFile ==
    [complete |-> TRUE, data |-> NoInv, width |-> 1, height |-> 1,
     laidOut |-> FALSE]

\* The PNG plt.savefig writes for a figure at the given dpi: the drawing on the
\* figure, cropped to the figure's extent.
Png(fig, dpi) ==
    [complete |-> TRUE, data |-> fig.data, width |-> fig.figsize.w * dpi,
     height |-> fig.figsize.h * dpi, laidOut |-> fig.laidOut]

\* what an interrupted write leaves behind
Truncated(png) == [png EXCEPT !.complete = FALSE]

WriteFile(fl, p, content) ==
    [q \in (DOMAIN fl) \cup {p} |-> IF q = p THEN content ELSE fl[q]]

\* MkdirParents creating the named directory alone, not its ancestors
MkdirParents_LeafOnly(ds, fl, p) ==
    IF \E q \in Prefixes(p) : q \in DOMAIN fl
    THEN [ok |-> FALSE, dirs |-> ds]
    ELSE [ok |-> TRUE, dirs |-> ds \cup {p}]

\* Path(output_path).parent.mkdir(parents=True, exist_ok=True):
\* [ok, dirs]. Fails when a component of the path is a regular file; otherwise
\* every missing ancestor is created.
MkdirParents(ds, fl, p) ==
    IF \E q \in Prefixes(p) : q \in DOMAIN fl
    THEN [ok |-> FALSE, dirs |-> ds]
    ELSE [ok |-> TRUE, dirs |-> ds \cup Prefixes(p)]

\* Every outcome of plt.savefig(output_path, ..., dpi): [err, files].
\* The figure saved is pyplot's current figure. The target is opened for
\* writing (truncating what was there); a directory at the target is refused;
\* a write that fails part way (disk full, I/O error) leaves the truncated
\* file, or nothing when the file was new and the encoder removes it.
Savefig(fs, fl, p, ds, dpi) ==
    LET png == Png(fs[GcfIndex(fs)], dpi)
    IN  IF p \in ds THEN {[err |-> "IsADirectoryError", files |-> fl]}
        ELSE {[err |-> "", files |-> WriteFile(fl, p, png)],
              [err |-> "OSError", files |-> WriteFile(fl, p, Truncated(png))]}
             \cup (IF p \in DOMAIN fl THEN {}
                   ELSE {[err |-> "OSError", files |-> fl]})

-----------------------------------------------------------------------------
\* Result metadata

\* ParamsForMetadata recording params['sr'] in place of the rate in use
ParamsForMetadata_ParamsSr(params, sr) == [k \in Keys |-> params[k]]

\* params_for_metadata (lines 180-189, 277-286): 'sr' is the local sr
ParamsForMetadata(params, sr) ==
    [k \in Keys |-> IF k = "sr" THEN sr ELSE params[k]]

\* json.dumps: numbers are written as numbers, a tuple or a list as an array
JsonDumps(d) ==
    [k \in DOMAIN d |->
        IF k = "figsize" THEN [kind |-> "array", w |-> d[k].w, h |-> d[k].h]
        ELSE d[k]]

\* json.loads: an array is read as a list
JsonLoads(j) ==
    [k \in DOMAIN j |->
        IF k = "figsize" THEN PyList(j[k].w, j[k].h) ELSE j[k]]

NoResult == [returned |-> FALSE]

Result(png, sr, len, params) ==
    [returned |-> TRUE,
     image_width |-> png.width,
     image_height |-> png.height,
     sample_rate |-> sr,
     duration_seconds |-> <<len, sr>>,     \* the quotient len / sr
     spectrogram_params |-> JsonDumps(ParamsForMetadata(params, sr))]

-----------------------------------------------------------------------------
\* Calls: arguments and locals of one invocation

\* no image was read back
NoImage ==
    [complete |-> FALSE, data |-> NoInv, width |-> 0, height |-> 0,
     laidOut |-> FALSE]

IdleFrame ==
    [op |-> "none", n |-> 0, audio |-> NoAudio, srArg |-> 0,
     dur |-> NoDuration, kwargs |-> EmptyDict, outPath |-> Root,
     params |-> EmptyDict, y |-> 0, sr |-> 0, shape |-> NoShape,
     err |-> "", at |-> "", img |-> NoImage, result |-> NoResult,
     dirs0 |-> {}, files0 |-> NoFiles, figs0 |-> {}]

\* the invocation a frame belongs to: thread and call number
Inv(t) == <<t, fr[t].n>>

Resting(t) == pc[t] \in {"idle", "returned", "raised"}

\* an exception leaves the call: nothing after the raising statement runs
Raise(t, e) ==
    /\ pc' = [pc EXCEPT ![t] = "raised"]
    /\ fr' = [fr EXCEPT ![t].err = e, ![t].at = pc[t]]

\* generate_mel_spectrogram(audio_path, output_path, **kwargs), lines 120-122:
\* params = self.params.copy(); params.update(kwargs)
generate_mel_spectrogram(t, maxc, audios, kws, paths) ==
    /\ Resting(t)
    /\ calls[t] < maxc
    /\ \E a \in audios, kw \in kws, p \in paths :
          fr' = [fr EXCEPT ![t] =
                    [IdleFrame EXCEPT
                        !.op = "generate_mel_spectrogram",
                        !.n = calls[t] + 1,
                        !.audio = a, !.kwargs = kw, !.outPath = p,
                        !.params = Update(mgr.params, kw),
                        !.dirs0 = dirs, !.files0 = files,
                        !.figs0 = OpenIds(figs)]]
    /\ pc' = [pc EXCEPT ![t] = "load"]
    /\ calls' = [calls EXCEPT ![t] = @ + 1]
    /\ UNCHANGED <<xc, ctor, mgr, figs, dirs, files>>

\* generate_mel_spectrogram_from_array(y, sr, output_path, **kwargs),
\* lines 218-221: as above, then params['sr'] = sr
generate_mel_spectrogram_from_array(t, maxc, lens, srs, kws, paths) ==
    /\ Resting(t)
    /\ calls[t] < maxc
    /\ \E len \in lens, sr \in srs, kw \in kws, p \in paths :
          fr' = [fr EXCEPT ![t] =
                    [IdleFrame EXCEPT
                        !.op = "generate_mel_spectrogram_from_array",
                        !.n = calls[t] + 1,
                        !.kwargs = kw, !.outPath = p,
                        !.y = len, !.sr = sr, !.srArg = sr,
                        !.params = SetItem(Update(mgr.params, kw), "sr", sr),
                        !.dirs0 = dirs, !.files0 = files,
                        !.figs0 = OpenIds(figs)]]
    /\ pc' = [pc EXCEPT ![t] = "compute"]
    /\ calls' = [calls EXCEPT ![t] = @ + 1]
    /\ UNCHANGED <<xc, ctor, mgr, figs, dirs, files>>

\* A client's own call of load_audio(audio_path, sr, duration), lines 75-85
CallLoadAudio(t, maxc, audios, srs, durs) ==
    /\ Resting(t)
    /\ calls[t] < maxc
    /\ \E a \in audios, sr \in srs, d \in durs :
       \E o \in load_audio(mgr.params, a, sr, d) :
          /\ fr' = [fr EXCEPT ![t] =
                    [IdleFrame EXCEPT
                        !.op = "load_audio", !.n = calls[t] + 1,
                        !.audio = a, !.srArg = sr, !.dur = d,
                        !.y = o.y, !.sr = o.sr,
                        !.err = IF o.ok THEN "" ELSE "Exception",
                        !.at = IF o.ok THEN "" ELSE "load",
                        !.dirs0 = dirs, !.files0 = files,
                        !.figs0 = OpenIds(figs)]]
          /\ pc' = [pc EXCEPT ![t] = IF o.ok THEN "returned" ELSE "raised"]
    /\ calls' = [calls EXCEPT ![t] = @ + 1]
    /\ UNCHANGED <<xc, ctor, mgr, figs, dirs, files>>

\* lines 125-126: y, sr = self.load_audio(audio_path, sr=params.get('sr'))
Load(t) ==
    /\ pc[t] = "load"
    /\ \E o \in load_audio(mgr.params, fr[t].audio,
                           GetOr(fr[t].params, "sr", 0), NoDuration) :
          IF o.ok
          THEN /\ fr' = [fr EXCEPT ![t].y = o.y, ![t].sr = o.sr]
               /\ pc' = [pc EXCEPT ![t] = "compute"]
          ELSE Raise(t, "Exception")
    /\ UNCHANGED <<xc, ctor, mgr, figs, dirs, files, calls>>

\* lines 126-140 (223-237): duration, melspectrogram, power_to_db
Compute(t) ==
    /\ pc[t] = "compute"
    /\ \E o \in MelSpectrogram(fr[t].y, fr[t].sr, fr[t].params) :
          IF o.err = ""
          THEN /\ fr' = [fr EXCEPT ![t].shape = o.shape]
               /\ pc' = [pc EXCEPT ![t] = "subplots"]
          ELSE Raise(t, o.err)
    /\ UNCHANGED <<xc, ctor, mgr, figs, dirs, files, calls>>

\* line 143 (240): fig, ax = plt.subplots(figsize=params['figsize'], dpi=params['dpi'])
Subplots(t) ==
    /\ pc[t] = "subplots"
    /\ IF {"figsize", "dpi"} \subseteq DOMAIN fr[t].params
       THEN /\ figs' = Append(figs, NewFigure(Inv(t), fr[t].params.figsize,
                                              fr[t].params.dpi))
            /\ pc' = [pc EXCEPT ![t] = "specshow"]
            /\ UNCHANGED fr
       ELSE /\ Raise(t, "KeyError")
            /\ UNCHANGED figs
    /\ UNCHANGED <<xc, ctor, mgr, dirs, files, calls>>

\* lines 146-158 (243-255): librosa.display.specshow(mel_spec_db, ..., ax=ax); ax.axis('off')
Specshow(t) ==
    /\ pc[t] = "specshow"
    /\ figs' = DrawOn(figs, Inv(t), Inv(t))
    /\ pc' = [pc EXCEPT ![t] = "layout"]
    /\ UNCHANGED <<xc, ctor, mgr, dirs, files, fr, calls>>

\* line 159 (256): plt.tight_layout(pad=0)
Layout(t) ==
    /\ pc[t] = "layout"
    /\ figs' = TightLayout(figs)
    /\ pc' = [pc EXCEPT ![t] = "mkdir"]
    /\ UNCHANGED <<xc, ctor, mgr, dirs, files, fr, calls>>

\* lines 162-163 (259-260): output_path_obj.parent.mkdir(parents=True, exist_ok=True)
Mkdir(t) ==
    /\ pc[t] = "mkdir"
    /\ LET r == MkdirParents(dirs, files, Parent(fr[t].outPath))
       IN  IF r.ok
           THEN /\ dirs' = r.dirs
                /\ pc' = [pc EXCEPT ![t] = "savefig"]
                /\ UNCHANGED fr
           ELSE /\ Raise(t, "OSError")
                /\ UNCHANGED dirs
    /\ UNCHANGED <<xc, ctor, mgr, figs, files, calls>>

\* lines 165-171 (262-268): plt.savefig(output_path, format='png', ..., dpi=params['dpi'])
SaveFigure(t) ==
    /\ pc[t] = "savefig"
    /\ \E o \in Savefig(figs, files, fr[t].outPath, dirs, fr[t].params.dpi) :
          /\ files' = o.files
          /\ IF o.err = ""
             THEN /\ pc' = [pc EXCEPT ![t] = "close"]
                  /\ UNCHANGED fr
             ELSE Raise(t, o.err)
    /\ UNCHANGED <<xc, ctor, mgr, figs, dirs, calls>>

\* line 172 (269): plt.close(fig)
Close(t) ==
    /\ pc[t] = "close"
    /\ figs' = CloseFigure(figs, Inv(t))
    /\ pc' = [pc EXCEPT ![t] = "readback"]
    /\ UNCHANGED <<xc, ctor, mgr, dirs, files, fr, calls>>

\* lines 175-197 (272-294): Image.open(output_path).size, the metadata, return
ReadBack(t) ==
    /\ pc[t] = "readback"
    /\ IF fr[t].outPath \in DOMAIN files /\ files[fr[t].outPath].complete
       THEN /\ fr' = [fr EXCEPT ![t].img = files[fr[t].outPath],
                                 ![t].result =
                        Result(files[fr[t].outPath], fr[t].sr, fr[t].y,
                               fr[t].params)]
            /\ pc' = [pc EXCEPT ![t] = "returned"]
       ELSE Raise(t, "UnidentifiedImageError")
    /\ UNCHANGED <<xc, ctor, mgr, figs, dirs, files, calls>>

\* get_default_params(), lines 46-53: return self.params.copy(); the caller
\* holds the copy
CallGetDefaultParams(t, maxc) ==
    /\ Resting(t)
    /\ calls[t] < maxc
    /\ fr' = [fr EXCEPT ![t] =
                [IdleFrame EXCEPT
                    !.op = "get_default_params", !.n = calls[t] + 1,
                    !.params = get_default_params,
                    !.dirs0 = dirs, !.files0 = files,
                    !.figs0 = OpenIds(figs)]]
    /\ pc' = [pc EXCEPT ![t] = "returned"]
    /\ calls' = [calls EXCEPT ![t] = @ + 1]
    /\ UNCHANGED <<xc, ctor, mgr, figs, dirs, files>>

\* the caller writes d[k] = v to the dictionary get_default_params returned:
\* a copy (line 53), so the write stays with the caller
MutateReturned(t, items) ==
    /\ pc[t] = "returned"
    /\ fr[t].op = "get_default_params"
    /\ \E i \in items :
          fr' = [fr EXCEPT ![t].params = SetItem(@, i[1], i[2])]
    /\ UNCHANGED <<xc, ctor, mgr, figs, dirs, files, pc, calls>>

\* the caller writes d[k] = v to the dictionary it gave to the constructor.
\* Line 44, `default_params or self.DEFAULT_PARAMS.copy()`, keeps a non-empty
\* default_params itself, not a copy: the write is a write to self.params.
\* (An empty dictionary is falsy: the manager then holds a copy of
\* DEFAULT_PARAMS and the caller's dictionary is nothing to it.) ctor stays
\* the argument as it was at construction.
MutateCtorDict(items) ==
    /\ Truthy(ctor)
    /\ \E i \in items :
          mgr' = [mgr EXCEPT !.params = SetItem(@, i[1], i[2])]
    /\ UNCHANGED <<xc, ctor, figs, dirs, files, pc, fr, calls>>

\* the steps of a running generate call
Step(t) ==
    \/ Load(t)
    \/ Compute(t)
    \/ Subplots(t)
    \/ Specshow(t)
    \/ Layout(t)
    \/ Mkdir(t)
    \/ SaveFigure(t)
    \/ Close(t)
    \/ ReadBack(t)

-----------------------------------------------------------------------------
\* services/xeno_canto_service.py: XenoCantoService

\* An Optional[int]: NoInt is None.
NoInt == [given |-> FALSE, n |-> 0]
IntOf(i) == [given |-> TRUE, n |-> i]

\* A name is the sequence of its words; None and '' are the empty sequence.
NoName == <<>>

\* the filter arguments of a call
NoFilters ==
    [sci |-> NoName, common |-> NoName, quality |-> NoName,
     country |-> NoName, since |-> NoName]

\* lines 107-149: the query terms, in order. A two-word scientific name is
\* split into gen: and sp:, a single word goes to sci:; a value with a space
\* in it is quoted.
QueryParts(f) ==
    (IF f.sci = NoName THEN <<>>
     ELSE IF Len(f.sci) >= 2
          THEN <<[tag |-> "gen sp", words |-> f.sci, quoted |-> FALSE]>>
          ELSE <<[tag |-> "sci", words |-> f.sci, quoted |-> TRUE]>>)
    \o (IF f.common = NoName THEN <<>>
        ELSE <<[tag |-> "en", words |-> f.common,
                quoted |-> Len(f.common) >= 2]>>)
    \o (IF f.quality = NoName THEN <<>>
        ELSE <<[tag |-> "q", words |-> f.quality, quoted |-> FALSE]>>)
    \o (IF f.country = NoName THEN <<>>
        ELSE <<[tag |-> "cnt", words |-> f.country,
                quoted |-> Len(f.country) >= 2]>>)
    \o (IF f.since = NoName THEN <<>>
        ELSE <<[tag |-> "since", words |-> f.since, quoted |-> FALSE]>>)

\* PerPageOk without its upper end
PerPageOk_NoUpper(n) == 50 <= n

\* line 160: 50 <= per_page <= 500
PerPageOk(n) == 50 <= n /\ n <= 500

\* A response of _make_request (lines 72-78): None when the request failed,
\* else the decoded JSON with its recordings and, when present, numPages.
NoResponse == [ok |-> FALSE, recordings |-> <<>>, numPages |-> NoInt]

\* the recordings of a page of k recordings: each is known by page and place
Recordings(page, k) == [i \in 1..k |-> <<page, i>>]

\* every answer the remote API can give to a request for a page
Server(page) ==
    {NoResponse}
    \cup {[ok |-> TRUE, recordings |-> Recordings(page, k), numPages |-> np] :
            k \in 0..MaxRecs,
            np \in {NoInt} \cup {IntOf(i) : i \in 0..MaxNumPages}}

NoRequest == [query |-> <<>>, page |-> 0, per_page |-> NoInt]

\* Every outcome of search_recordings (lines 107-164): [err, sent, req, resp].
\* No query term raises ValueError, then a per_page outside the range raises
\* ValueError; otherwise one GET is sent, its params carrying per_page only
\* when it was given, and the response (or None) is returned.
search_recordings(f, page, per_page) ==
    LET refuse == [err |-> "ValueError", sent |-> FALSE, req |-> NoRequest,
                   resp |-> NoResponse]
        req == [query |-> QueryParts(f), page |-> page, per_page |-> per_page]
    IN  IF QueryParts(f) = <<>> THEN {refuse}
        ELSE IF per_page.given /\ ~PerPageOk(per_page.n) THEN {refuse}
        ELSE {[err |-> "", sent |-> TRUE, req |-> req, resp |-> r] :
                r \in Server(page)}

\* line 212: max_recordings and len(all_recordings) >= max_recordings
MaxReached(maxrec, len) == maxrec.given /\ maxrec.n # 0 /\ len >= maxrec.n

\* line 217: response.get('numPages', 1)
NumPagesOf(resp) == IF resp.numPages.given THEN resp.numPages.n ELSE 1

\* NextPage skipping a page
NextPage_Skip(page) == page + 2

\* line 221: page += 1
NextPage(page) == page + 1

\* One pass of the while loop of get_all_recordings_for_species (lines
\* 202-221) over a response: [done, all, page].
LoopBody(all, page, maxrec, resp) ==
    LET more == all \o resp.recordings
    IN  IF ~resp.ok \/ resp.recordings = <<>>
        THEN [done |-> TRUE, all |-> all, page |-> page]
        ELSE IF MaxReached(maxrec, Len(more))
        THEN [done |-> TRUE, all |-> SubSeq(more, 1, maxrec.n), page |-> page]
        ELSE IF page >= NumPagesOf(resp)
        THEN [done |-> TRUE, all |-> more, page |-> page]
        ELSE [done |-> FALSE, all |-> more, page |-> NextPage(page)]

XcIdle ==
    [pc |-> "idle", op |-> "none", filters |-> NoFilters,
     maxrec |-> NoInt, per_page |-> NoInt, page |-> 0, all |-> <<>>,
     sent |-> <<>>, resps |-> <<>>, err |-> ""]

\* The service keeps nothing from one call to the next (its api_key, timeout
\* and session are set once, lines 37-49), so a behaviour follows one call.

\* a client's call of search_recordings(..., page, per_page)
XcSearch(filters, pages, perPages) ==
    /\ xc.pc = "idle"
    /\ \E f \in filters, p \in pages, pp \in perPages :
       \E o \in search_recordings(f, p, pp) :
          xc' = [XcIdle EXCEPT
                    !.op = "search_recordings",
                    !.filters = f, !.page = p, !.per_page = pp,
                    !.pc = IF o.err = "" THEN "returned" ELSE "raised",
                    !.err = o.err,
                    !.sent = IF o.sent THEN <<o.req>> ELSE <<>>,
                    !.resps = IF o.sent THEN <<o.resp>> ELSE <<>>]
    /\ UNCHANGED <<ctor, mgr, figs, dirs, files, pc, fr, calls>>

\* get_all_recordings_for_species(..., max_recordings, per_page), lines
\* 189-190: all_recordings = [], page = 1
XcGetAll(filters, maxrecs, perPages) ==
    /\ xc.pc = "idle"
    /\ \E f \in filters, m \in maxrecs, pp \in perPages :
          xc' = [XcIdle EXCEPT
                    !.op = "get_all_recordings_for_species",
                    !.filters = f, !.maxrec = m, !.per_page = pp,
                    !.page = 1, !.pc = "loop"]
    /\ UNCHANGED <<ctor, mgr, figs, dirs, files, pc, fr, calls>>

\* lines 192-223: one pass of the loop: the request for the current page, then
\* the return of what was gathered or the step to the next page
XcIterate ==
    /\ xc.pc = "loop"
    /\ \E o \in search_recordings(xc.filters, xc.page, xc.per_page) :
          IF o.err # ""
          THEN xc' = [xc EXCEPT !.pc = "raised", !.err = o.err]
          ELSE LET b == LoopBody(xc.all, xc.page, xc.maxrec, o.resp)
               IN  xc' = [xc EXCEPT
                            !.sent = Append(@, o.req),
                            !.resps = Append(@, o.resp),
                            !.all = b.all, !.page = b.page,
                            !.pc = IF b.done THEN "returned" ELSE "loop"]
    /\ UNCHANGED <<ctor, mgr, figs, dirs, files, pc, fr, calls>>

-----------------------------------------------------------------------------
\* Inputs of the sequential specification

CustomParams ==
    [n_fft |-> 1024, hop_length |-> 256, n_mels |-> 64, fmin |-> 0,
     fmax |-> 4000, sr |-> 16000, dpi |-> 50, figsize |-> PyList(6, 3)]

CtorArgs == {None, Some(EmptyDict), Some([n_mels |-> 64]), Some(CustomParams)}

KwargsSet ==
    {EmptyDict,
     [n_mels |-> 64],
     [n_fft |-> 1024, hop_length |-> 1024],
     [n_fft |-> 512, hop_length |-> 1024],
     [hop_length |-> 0],
     [sr |-> 8000],
     [sr |-> 0],
     [figsize |-> PyList(6, 3), dpi |-> 50]}

AudioFiles ==
    {NoAudio,
     [readable |-> TRUE, sr |-> 22050, frames |-> 66150],
     [readable |-> TRUE, sr |-> 44100, frames |-> 132300]}

ClipLens == {0, 1024, 2048, 66150}
ArraySrs == {0, 22050}
LoadSrs == {0, 22050}
Durations ==
    {NoDuration, [given |-> TRUE, ms |-> 0], [given |-> TRUE, ms |-> 10],
     [given |-> TRUE, ms |-> 1000]}

OutPaths ==
    {<<"out", "a.png">>, <<"deep", "er", "b.png">>, <<"blocked", "c.png">>,
     <<"out">>}

FsInits ==
    {[dirs |-> {Root}, files |-> NoFiles],
     [dirs |-> {Root, <<"out">>},
      files |-> [p \in {<<"out", "a.png">>, <<"blocked">>} |-> OldFile]]}

Threads == {1}

Init ==
    /\ ctor \in CtorArgs
    /\ mgr = Construct(ctor)
    /\ figs = <<>>
    /\ \E f \in FsInits : dirs = f.dirs /\ files = f.files
    /\ pc = [t \in Threads |-> "idle"]
    /\ fr = [t \in Threads |-> IdleFrame]
    /\ calls = [t \in Threads |-> 0]
    /\ xc = XcIdle

Next ==
    \E t \in Threads :
        \/ generate_mel_spectrogram(t, MaxCalls, AudioFiles, KwargsSet, OutPaths)
        \/ generate_mel_spectrogram_from_array(t, MaxCalls, ClipLens, ArraySrs,
                                               KwargsSet, OutPaths)
        \/ CallLoadAudio(t, MaxCalls, AudioFiles, LoadSrs, Durations)
        \/ Step(t)

Spec == Init /\ [][Next]_vars

-----------------------------------------------------------------------------
\* Two worker threads, one manager, distinct output paths

ParThreads == {1, 2}
ParKwargs == {EmptyDict, [figsize |-> PyList(6, 3), dpi |-> 50]}
ParAudio == {[readable |-> TRUE, sr |-> 22050, frames |-> 66150]}
ParLens == {2048}
ParSrs == {22050}
ParPath(t) == IF t = 1 THEN <<"out", "a.png">> ELSE <<"out", "b.png">>

InitPar ==
    /\ ctor = None
    /\ mgr = Construct(ctor)
    /\ figs = <<>>
    /\ dirs = {Root}
    /\ files = NoFiles
    /\ pc = [t \in ParThreads |-> "idle"]
    /\ fr = [t \in ParThreads |-> IdleFrame]
    /\ calls = [t \in ParThreads |-> 0]
    /\ xc = XcIdle

NextPar ==
    \E t \in ParThreads :
        \/ generate_mel_spectrogram(t, ParCalls, ParAudio, ParKwargs, {ParPath(t)})
        \/ generate_mel_spectrogram_from_array(t, ParCalls, ParLens, ParSrs,
                                               ParKwargs, {ParPath(t)})
        \/ Step(t)

SpecPar == InitPar /\ [][NextPar]_vars

-----------------------------------------------------------------------------
\* Calls one after the other on one manager and one process. Each call has a
\* frame of its own (a slot), so that what earlier calls returned stays in view.

RepThreads == 1..RepSlots
RepKwargs == {EmptyDict, [figsize |-> PyList(6, 3), dpi |-> 50]}
RepAudio == {NoAudio, [readable |-> TRUE, sr |-> 44100, frames |-> 132300]}
RepPaths == {<<"out", "a.png">>, <<"blocked", "c.png">>}

InitRep ==
    /\ ctor = None
    /\ mgr = Construct(ctor)
    /\ figs = <<>>
    /\ dirs = {Root}
    /\ files = [p \in {<<"blocked">>} |-> OldFile]
    /\ pc = [t \in RepThreads |-> "idle"]
    /\ fr = [t \in RepThreads |-> IdleFrame]
    /\ calls = [t \in RepThreads |-> 0]
    /\ xc = XcIdle

\* slot t runs when every other slot rests and the slots before it were used
NextRep ==
    \E t \in RepThreads :
        /\ \A u \in RepThreads \ {t} : Resting(u)
        /\ \A u \in 1..(t - 1) : pc[u] # "idle"
        /\ \/ generate_mel_spectrogram(t, 1, RepAudio, RepKwargs, RepPaths)
           \/ Step(t)

SpecRep == InitRep /\ [][NextRep]_vars

-----------------------------------------------------------------------------
\* A manager whose caller keeps and writes to the dictionaries it shares

MutCtorArgs == {None, Some(EmptyDict), Some(CustomParams)}
MutItems == {<<"n_mels", 32>>, <<"sr", 8000>>}
MutKwargs == {EmptyDict, [n_mels |-> 64]}
MutAudio == {[readable |-> TRUE, sr |-> 22050, frames |-> 66150]}
MutLens == {2048}
MutSrs == {22050}
MutPaths == {<<"out", "a.png">>}

InitMut ==
    /\ ctor \in MutCtorArgs
    /\ mgr = Construct(ctor)
    /\ figs = <<>>
    /\ dirs = {Root}
    /\ files = NoFiles
    /\ pc = [t \in Threads |-> "idle"]
    /\ fr = [t \in Threads |-> IdleFrame]
    /\ calls = [t \in Threads |-> 0]
    /\ xc = XcIdle

NextMut ==
    \/ MutateCtorDict(MutItems)
    \/ \E t \in Threads :
        \/ generate_mel_spectrogram(t, MutCalls, MutAudio, MutKwargs, MutPaths)
        \/ generate_mel_spectrogram_from_array(t, MutCalls, MutLens, MutSrs,
                                               MutKwargs, MutPaths)
        \/ CallLoadAudio(t, MutCalls, MutAudio, {0}, {NoDuration})
        \/ CallGetDefaultParams(t, MutCalls)
        \/ MutateReturned(t, MutItems)
        \/ Step(t)

SpecMut == InitMut /\ [][NextMut]_vars

-----------------------------------------------------------------------------
\* The client of the recordings API

XcFilters ==
    {NoFilters,
     [NoFilters EXCEPT !.sci = <<"Turdus", "migratorius">>],
     [NoFilters EXCEPT !.sci = <<"Turdus">>, !.quality = <<"A">>],
     [NoFilters EXCEPT !.common = <<"American", "Robin">>],
     [NoFilters EXCEPT !.country = <<"US">>, !.since = <<"31">>]}

XcPerPages == {NoInt, IntOf(49), IntOf(50), IntOf(100), IntOf(500), IntOf(501)}
XcLoopFilters ==
    {NoFilters, [NoFilters EXCEPT !.sci = <<"Turdus", "migratorius">>],
     [NoFilters EXCEPT !.common = <<"American", "Robin">>]}
XcLoopPerPages == {NoInt, IntOf(49), IntOf(100), IntOf(501)}
XcPages == {1, 2}
XcMaxRecs == {NoInt, IntOf(0), IntOf(1), IntOf(3)}

InitXc ==
    /\ ctor = None
    /\ mgr = Construct(ctor)
    /\ figs = <<>>
    /\ dirs = {Root}
    /\ files = NoFiles
    /\ pc = [t \in Threads |-> "idle"]
    /\ fr = [t \in Threads |-> IdleFrame]
    /\ calls = [t \in Threads |-> 0]
    /\ xc = XcIdle

NextXc ==
    \/ XcSearch(XcFilters, XcPages, XcPerPages)
    \/ XcGetAll(XcLoopFilters, XcMaxRecs, XcLoopPerPages)
    \/ XcIterate

\* the loop runs on: every request ends, with a response or with the timeout
SpecXc == InitXc /\ [][NextXc]_vars /\ WF_vars(XcIterate)

-----------------------------------------------------------------------------
\* Properties

AllThreads == DOMAIN pc

Gen(t) ==
    fr[t].op \in {"generate_mel_spectrogram",
                  "generate_mel_spectrogram_from_array"}

\* the call got past the spectrogram computation
Computed(t) ==
    \/ pc[t] \in {"subplots", "specshow", "layout", "mkdir", "savefig",
                  "close", "readback", "returned"}
    \/ pc[t] = "raised" /\ fr[t].at \notin {"load", "compute"}

\* the call ended, one way or the other
Ended(t) == pc[t] \in {"returned", "raised"}

\* the parameter set in use: the merged params with the sample rate in use
Effective(t) == SetItem(fr[t].params, "sr", fr[t].sr)

\* the spec's invariant of a parameter set
ValidParams(p) ==
    /\ Keys \subseteq DOMAIN p
    /\ p.n_fft > 0 /\ p.hop_length > 0 /\ p.n_mels > 0
    /\ p.sr > 0 /\ p.dpi > 0
    /\ p.hop_length <= p.n_fft
    /\ 0 <= p.fmin /\ p.fmin < p.fmax /\ 2 * p.fmax <= p.sr

\* C1: when two generate calls with distinct output paths interleave, each
\* output file holds the rendering of its own call's spectrogram and each
\* result reports the dimensions of its own file.
C1_OwnRendering ==
    \A t \in AllThreads :
        (Gen(t) /\ pc[t] = "returned") =>
            /\ fr[t].outPath \in DOMAIN files
            /\ files[fr[t].outPath].data = Inv(t)
            /\ fr[t].result.image_width = files[fr[t].outPath].width
            /\ fr[t].result.image_height = files[fr[t].outPath].height

\* C2: a generate call leaves the set of open figures as it found it, whether
\* it returns or raises.
C2_FigureReleased ==
    \A t \in AllThreads :
        (Gen(t) /\ Ended(t)) => OpenIds(figs) = fr[t].figs0

\* C3: a generate call that fails surfaces an error and leaves the target
\* path holding a complete PNG or in the state it had before the call.
C3_NoPartialFile ==
    \A t \in AllThreads :
        (Gen(t) /\ pc[t] = "raised") =>
            /\ fr[t].err # ""
            /\ IF fr[t].outPath \in DOMAIN files
               THEN \/ files[fr[t].outPath].complete
                    \/ /\ fr[t].outPath \in DOMAIN fr[t].files0
                       /\ files[fr[t].outPath] = fr[t].files0[fr[t].outPath]
               ELSE fr[t].outPath \notin DOMAIN fr[t].files0

\* what C4 says the merged parameter set of a call is: the documented defaults,
\* overridden by the constructor's dictionary, overridden by the kwargs (and,
\* for the array entry point, by the sr argument)
MergedOverDefaults(t) ==
    LET m == Update(Update(DEFAULT_PARAMS, ctor.dict), fr[t].kwargs)
    IN  IF fr[t].op = "generate_mel_spectrogram_from_array"
        THEN SetItem(m, "sr", fr[t].srArg)
        ELSE m

\* C4: overrides given to the constructor or per call merge over the
\* documented defaults key by key: every supplied key has its supplied value,
\* every other key its documented default.
C4_MergeOverDefaults ==
    \A t \in AllThreads : Gen(t) => fr[t].params = MergedOverDefaults(t)

\* C5 as stated: the spectrogram_params string of a successful generate call,
\* parsed back, equals the effective parameter set of the call.
C5_RoundTripEqual ==
    \A t \in AllThreads :
        (Gen(t) /\ pc[t] = "returned") =>
            JsonLoads(fr[t].result.spectrogram_params) = Effective(t)

\* C5 as amended: parsed back, spectrogram_params has exactly the eight keys,
\* every scalar key at the value in use (sr at the sample rate in use), and
\* figsize as a list of the two numbers of the figsize in use.
C5_RoundTripUpToList ==
    \A t \in AllThreads :
        (Gen(t) /\ pc[t] = "returned") =>
            LET back == JsonLoads(fr[t].result.spectrogram_params)
                eff == Effective(t)
            IN  /\ DOMAIN back = Keys
                /\ DOMAIN eff = Keys
                /\ \A k \in ScalarKeys : back[k] = eff[k]
                /\ back.figsize = PyList(eff.figsize.w, eff.figsize.h)
                /\ back.sr = fr[t].result.sample_rate

\* a successful call whose sr override differs from the rate in use and whose
\* figsize is the default tuple
C5_Witness ==
    \E t \in AllThreads :
        /\ Gen(t) /\ pc[t] = "returned"
        /\ Has(fr[t].kwargs, "sr") /\ fr[t].kwargs.sr # fr[t].sr
        /\ fr[t].params.figsize.kind = "tuple"

\* a clip shorter than the window, the parameters otherwise computable
ShortClip(t) ==
    /\ Gen(t)
    /\ ComputeKeys \subseteq DOMAIN fr[t].params
    /\ fr[t].sr # 0
    /\ fr[t].params.hop_length > 0 /\ fr[t].params.n_mels > 0
    /\ 0 < fr[t].y /\ fr[t].y < fr[t].params.n_fft

WindowClip(t) ==
    /\ Gen(t)
    /\ pc[t] \notin {"load", "compute"}
    /\ ValidParams(Effective(t))
    /\ fr[t].y = fr[t].params.n_fft

C8_DurationBound ==
    \A t \in AllThreads :
        (fr[t].op = "load_audio" /\ pc[t] = "returned" /\ fr[t].dur.given) =>
            /\ fr[t].dur.ms > 0
            /\ fr[t].y > 0
            /\ fr[t].y * 1000 <= fr[t].dur.ms * fr[t].sr

\* C9: a successful generate call whose target's parent directory did not
\* exist creates every missing ancestor, adds exactly one file, the target,
\* and leaves every other file and every earlier directory as it was.
C9_OneNewFile ==
    \A t \in AllThreads :
        (Gen(t) /\ pc[t] = "returned"
                /\ Parent(fr[t].outPath) \notin fr[t].dirs0) =>
            /\ fr[t].outPath \notin DOMAIN fr[t].files0
            /\ DOMAIN files = (DOMAIN fr[t].files0) \cup {fr[t].outPath}
            /\ \A p \in DOMAIN fr[t].files0 : files[p] = fr[t].files0[p]
            /\ files[fr[t].outPath].complete
            /\ dirs = fr[t].dirs0 \cup Prefixes(Parent(fr[t].outPath))

\* a returned call whose target lay two missing directories deep
C9_Witness ==
    \E t \in AllThreads :
        /\ Gen(t) /\ pc[t] = "returned"
        /\ Len(fr[t].outPath) >= 3
        /\ Parent(Parent(fr[t].outPath)) \notin fr[t].dirs0
        /\ Parent(fr[t].outPath) \in dirs

\* C10: a generate call whose merged parameters are an invalid combination is
\* rejected before a figure is created or anything is written: it never gets
\* past the spectrogram computation.
C10_InvalidRejected ==
    \A t \in AllThreads :
        (Gen(t) /\ Keys \subseteq DOMAIN fr[t].params
                /\ ~ValidParams(fr[t].params)) =>
            /\ ~Computed(t)
            /\ OpenIds(figs) = fr[t].figs0
            /\ dirs = fr[t].dirs0 /\ files = fr[t].files0

\* --- the client of the recordings API

HasFilter == xc.filters # NoFilters
PerPageOutside == xc.per_page.given /\ (xc.per_page.n < 50 \/ xc.per_page.n > 500)
XcEnded == xc.pc \in {"returned", "raised"}
GetAll == xc.op = "get_all_recordings_for_species"

\* C11: a search_recordings call with a filter and a per_page outside 50..500
\* ends in an error having sent no request; every request sent by
\* search_recordings or get_all_recordings_for_species carries no per_page or
\* one within 50..500; a call without any filter never sends a request and
\* ends in an error.
C11_PerPageChecked ==
    /\ (XcEnded /\ xc.op = "search_recordings" /\ HasFilter /\ PerPageOutside)
          => (xc.pc = "raised" /\ xc.err = "ValueError" /\ xc.sent = <<>>)
    /\ \A i \in 1..Len(xc.sent) :
          \/ ~xc.sent[i].per_page.given
          \/ (50 <= xc.sent[i].per_page.n /\ xc.sent[i].per_page.n <= 500)
    /\ (xc.pc # "idle" /\ ~HasFilter)
          => (xc.sent = <<>> /\ xc.pc # "returned"
              /\ (XcEnded => xc.err = "ValueError"))

C11_Witness ==
    /\ xc.pc = "raised"
    /\ xc.op = "search_recordings"
    /\ HasFilter
    /\ xc.per_page = IntOf(501)
    /\ xc.sent = <<>>

RECURSIVE Fetched(_)
\* the recordings of the pages fetched, in the order of the requests
Fetched(rs) ==
    IF rs = <<>> THEN <<>>
    ELSE Fetched(SubSeq(rs, 1, Len(rs) - 1)) \o rs[Len(rs)].recordings

IsPrefix(a, b) == Len(a) <= Len(b) /\ a = SubSeq(b, 1, Len(a))

\* C14: a get_all_recordings_for_species call given an integer
\* max_recordings >= 0 returns at most max_recordings recordings, a prefix of
\* the recordings of the pages it fetched.
C14_MaxIsMaximum ==
    (xc.pc = "returned" /\ GetAll /\ xc.maxrec.given)
        => (Len(xc.all) <= xc.maxrec.n /\ IsPrefix(xc.all, Fetched(xc.resps)))

\* the numPages a response stands for, 1 when it reports none or failed
Reported(r) == IF r.ok /\ r.numPages.given THEN r.numPages.n ELSE 1

\* the least N bounding every numPages reported so far
ReportedBound ==
    LET ns == {Reported(xc.resps[i]) : i \in 1..Len(xc.resps)}
    IN  IF ns = {} THEN 0 ELSE CHOOSE n \in ns : \A m \in ns : m <= n

\* the loop went on after response i: it was a page of recordings, below
\* max_recordings, with more pages reported
WentOn(i) ==
    LET r == xc.resps[i]
    IN  /\ r.ok
        /\ r.recordings # <<>>
        /\ ~MaxReached(xc.maxrec, Len(Fetched(SubSeq(xc.resps, 1, i))))
        /\ i < Reported(r)

\* the requests are for pages 1, 2, 3, ... and the loop went on after every
\* response but the last, after which it stopped
C15_Loop ==
    GetAll =>
        /\ Len(xc.resps) = Len(xc.sent)
        /\ \A i \in 1..Len(xc.sent) : xc.sent[i].page = i
        /\ \A i \in 1..(Len(xc.resps) - 1) : WentOn(i)
        /\ (xc.pc = "loop" /\ xc.resps # <<>>) => WentOn(Len(xc.resps))
        /\ xc.pc = "loop" => (xc.page = Len(xc.sent) + 1 /\ xc.all = Fetched(xc.resps))
        /\ (xc.pc = "returned")
              => /\ xc.resps # <<>>
                 /\ ~WentOn(Len(xc.resps))
                 /\ IF MaxReached(xc.maxrec, Len(Fetched(xc.resps)))
                    THEN xc.all = SubSeq(Fetched(xc.resps), 1, xc.maxrec.n)
                    ELSE xc.all = Fetched(xc.resps)

Drawing(inv) ==
    IF \E u \in DOMAIN fr : Inv(u) = inv /\ fr[u].op # "none"
    THEN LET u == CHOOSE u \in DOMAIN fr : Inv(u) = inv
         IN  [audio |-> fr[u].audio, y |-> fr[u].y, sr |-> fr[u].sr,
              shape |-> fr[u].shape, params |-> fr[u].params]
    ELSE [audio |-> NoAudio, y |-> 0, sr |-> 0, shape |-> NoShape,
          params |-> EmptyDict]

\* the bytes of the PNG a call wrote and read back
Bytes(t) ==
    [complete |-> fr[t].img.complete, drawing |-> Drawing(fr[t].img.data),
     width |-> fr[t].img.width, height |-> fr[t].img.height,
     laidOut |-> fr[t].img.laidOut]

SameInputs(t, u) ==
    /\ fr[t].op = fr[u].op
    /\ fr[t].audio = fr[u].audio
    /\ fr[t].kwargs = fr[u].kwargs

\* C12: two calls of the pipeline on one manager with the same audio and the
\* same parameters return the same PNG bytes and the same result fields,
\* whatever calls, returned or raised, ran before or between them.
C12_Deterministic ==
    \A t, u \in DOMAIN fr :
        (pc[t] = "returned" /\ pc[u] = "returned" /\ Gen(t) /\ Gen(u)
         /\ SameInputs(t, u))
            => (Bytes(t) = Bytes(u) /\ fr[t].result = fr[u].result)

\* the first and the third call agree on their inputs and returned; the call
\* between them, with other parameters, raised and left its figure open
C12_Witness ==
    /\ DOMAIN fr = 1..3
    /\ pc[1] = "returned" /\ pc[3] = "returned"
    /\ SameInputs(1, 3)
    /\ fr[1].kwargs = EmptyDict
    /\ pc[2] = "raised" /\ fr[2].at = "mkdir"
    /\ fr[2].kwargs # fr[1].kwargs
    /\ Len(figs) = 1

\* --- the manager's parameters

\* C13: whatever calls were made and whatever the caller wrote to the
\* dictionary it gave to the constructor or to one get_default_params
\* returned, the manager's params are what they were at construction.
C13_ParamsReadOnly == mgr.params = Construct(ctor).params

====
